---- MODULE Spec2Model ----
(***************************************************************************)
(* Model of the signalling server in src/server/index.js: the room         *)
(* registry (serverState.rooms), the uWebSockets.js topic subscriptions    *)
(* the handlers use, and the three connection handlers open, message and   *)
(* close.  Each handler runs to completion on the event loop, so each is   *)
(* one action.                                                             *)
(*                                                                         *)
(* What the transport does is taken from the handlers' use of it:          *)
(* ws.getRooms() is serverState.rooms; ws.subscribe adds the socket to a   *)
(* topic; ws.publish writes to every subscriber of the topic except the    *)
(* publishing socket; a closing socket is no longer subscribed when its    *)
(* close handler runs, and the publish in that handler reaches the         *)
(* remaining subscribers ("Notify other peers that this peer has left").   *)
(* upgrade and open run back to back, so open takes the address and the    *)
(* peer id that upgrade resolved as its inputs.  The cookie logic of       *)
(* upgrade is modelled on its own (SpecUpgrade), character by character.   *)
(***************************************************************************)
EXTENDS Integers, Sequences, FiniteSets, TLC

\* ------------------------------------------------------------ bounds
\* connections the transport ever accepts
MaxConn == 3

Conns == 1 .. MaxConn
RoomKeys == {"10.0.0.5", "10.0.0.9"}     \* observed network addresses
PeerIds == {"p1", "p2"}                  \* peerid cookie values
NoValue == "undefined"                   \* a field not set yet

VARIABLES
    state,      \* state[c]: "CONNECTING", "JOINED" (open ran), "LEFT" (close ran)
    ip,         \* ws.ip
    id,         \* ws.id
    rooms,      \* serverState.rooms: RoomKey -> Map (insertion-ordered entries)
    topics,     \* transport pub/sub: topic -> set of subscribed connections
    inbox,      \* inbox[c]: the membership frames written to connection c, in order
    last,       \* the handler that ran last: its input, effects and outcome
    handshakes  \* the upgrade requests handled: cookie header, peerId, Set-Cookie

vars == <<state, ip, id, rooms, topics, inbox, last, handshakes>>

\* ------------------------------------------------------------ Map
\* A JavaScript Map is a sequence of entries [key, value] with unique keys.
MapHas(m, k) == \E i \in 1 .. Len(m) : m[i].key = k

MapGet(m, k) == LET i == CHOOSE j \in 1 .. Len(m) : m[j].key = k IN m[i].value

\* Map.prototype.set: an existing key keeps its position, a new key is appended.
MapSet(m, k, v) ==
    IF MapHas(m, k)
    THEN [i \in 1 .. Len(m) |-> IF m[i].key = k THEN [key |-> k, value |-> v] ELSE m[i]]
    ELSE Append(m, [key |-> k, value |-> v])

MapDelete(m, k) == SelectSeq(m, LAMBDA e : e.key # k)

MapValues(m) == [i \in 1 .. Len(m) |-> m[i].value]

MapKeys(m) == {m[i].key : i \in 1 .. Len(m)}

\* rooms[key] of a plain object: undefined when the key is absent.
HasRoom(r, key) == key \in DOMAIN r

\* delete rooms[key]
DeleteRoom(r, key) == [k \in (DOMAIN r) \ {key} |-> r[k]]

\* rooms[key] = m
PutRoom(r, key, m) == [k \in (DOMAIN r) \cup {key} |-> IF k = key THEN m ELSE r[k]]

\* ------------------------------------------------------------ JSON
\* An inbound frame is text.  A text is either not JSON, the literal null,
\* or an object written as a sequence of members [k, v] whose values are
\* literals [t, v].  Parsed values have the same shape; a number literal
\* outside the double range parses to Infinity.
Str(s) == [t |-> "string", v |-> s]
Num(s) == [t |-> "number", v |-> s]
Null == [t |-> "null", v |-> "null"]
Undefined == [t |-> "undefined", v |-> "undefined"]
Member(k, v) == [k |-> k, v |-> v]

\* JSON.parse of one literal.
ParseLiteral(l) == IF l.t = "number" /\ l.v = "1e400" THEN Num("Infinity") ELSE l

\* JSON.stringify of one value: non-finite numbers are written as null.
StringifyValue(x) == IF x.t = "number" /\ x.v \in {"Infinity", "NaN"} THEN Null ELSE x

\* JSON.parse: throws on text that is not JSON; an object gets one property
\* per distinct key, the last member written for a key giving its value.
JSONparse(text) ==
    IF text.kind = "garbage" THEN [threw |-> TRUE, kind |-> "none", props |-> <<>>]
    ELSE IF text.kind = "null" THEN [threw |-> FALSE, kind |-> "null", props |-> <<>>]
    ELSE LET RECURSIVE build(_, _)
             build(i, acc) ==
                 IF i > Len(text.members) THEN acc
                 ELSE build(i + 1, MapSet(acc, text.members[i].k,
                                          ParseLiteral(text.members[i].v)))
         IN [threw |-> FALSE, kind |-> "object", props |-> build(1, <<>>)]

\* JSON.stringify of an object: its own properties in insertion order.
JSONstringify(props) ==
    [kind |-> "object",
     members |-> [i \in 1 .. Len(props) |->
                     Member(props[i].key, StringifyValue(props[i].value))]]

\* msg.field
GetProp(props, k) == IF MapHas(props, k) THEN MapGet(props, k) ELSE Undefined

\* JavaScript truthiness of a parsed value.
Truthy(x) ==
    CASE x.t = "string" -> x.v # ""
      [] x.t = "number" -> x.v \notin {"0", "NaN"}
      [] OTHER -> FALSE

\* ------------------------------------------------------------ frames
\* What the server writes to a connection.  type is "peers", "peer-joined",
\* "peer-left", "display-name", or "relay" for a relayed client message,
\* whose body is the re-serialised text.
Frame(type, body) == [type |-> type, body |-> body]

\* The inbound texts the model feeds to the message handler.
Garbage == [kind |-> "garbage", members |-> <<>>]
NullText == [kind |-> "null", members |-> <<>>]
ObjectText(ms) == [kind |-> "object", members |-> ms]

\* Two payloads: one that carries a forged sender, one whose number is
\* outside the double range.
Forged == <<Member("sender", Str("spoof")), Member("x", Str("hi"))>>
Huge == <<Member("x", Num("1e400"))>>

To(v) == <<Member("to", v)>>

Inbound ==
    {Garbage, NullText, ObjectText(Forged),
     ObjectText(To(Str("")) \o Forged), ObjectText(To(Str("nobody")) \o Forged)}
        \cup {ObjectText(To(Str(p)) \o pl) : p \in PeerIds, pl \in {Forged, Huge}}

\* ------------------------------------------------------------ effects
\* One step of a handler, in program order: a ws.send, a ws.publish (with
\* the connections the transport delivers it to), or a registry write.
Send(c, frame) == [e |-> "send", rcpts |-> {c}, msg |-> frame]
Publish(rcpts, frame) == [e |-> "publish", rcpts |-> rcpts, msg |-> frame]
Write(what) == [e |-> what, rcpts |-> {}, msg |-> Frame("none", <<>>)]

\* The frames an effect sequence puts on connection c, in order.
RECURSIVE Delivered(_, _)
Delivered(effects, c) ==
    IF effects = <<>> THEN <<>>
    ELSE (IF c \in Head(effects).rcpts THEN <<Head(effects).msg>> ELSE <<>>)
             \o Delivered(Tail(effects), c)

\* The frames the server originates about membership; a relayed client
\* message is kept in the handler's effects only.
MembershipTypes == {"peers", "peer-joined", "peer-left", "display-name"}

\* ------------------------------------------------------------ transport
\* ws.subscribe(topic)
subscribe(t, c, topic) == [t EXCEPT ![topic] = @ \cup {c}]

\* A transport that keeps a closed socket subscribed.
unsubscribeNone(t, c) == t

\* The transport drops a closing socket's subscriptions before the close handler.
unsubscribeAll(t, c) == [k \in DOMAIN t |-> t[k] \ {c}]

\* A publish that also reaches the publisher (app.publish instead of ws.publish).
publishToAll(t, c, topic) == t[topic]

\* ws.publish(topic, ...): every subscriber of the topic but the publisher.
publishTo(t, c, topic) == t[topic] \ {c}

\* ------------------------------------------------------------ peer info
\* uniqueNamesGenerator seeded with the peer id: a function of the id.
displayName(p) == <<"name-of", p>>

\* ws.name, for a connection whose user-agent header is empty.
nameOf(p) == [displayName |-> displayName(p), deviceName |-> "Unknown Device"]

getInfoOf(p) == [id |-> p, name |-> nameOf(p), rtcSupported |-> TRUE]

\* uWS.WebSocket.prototype.getInfo
getInfo(c) == getInfoOf(id[c])

\* ------------------------------------------------------------ open
\* rooms after the lazy creation of rooms[ws.ip].
openRooms0(r, k) == IF HasRoom(r, k) THEN r ELSE PutRoom(r, k, <<>>)

\* Array.from(rooms[ws.ip].values()).map(peer => peer.getInfo())
otherPeers(r, k) == [i \in 1 .. Len(r[k]) |-> getInfo(MapValues(r[k])[i])]

\* A join that keeps the session already registered under the peer id.
openRoomsFirstWins(r, c, k, p) ==
    IF MapHas(r[k], p) THEN r ELSE PutRoom(r, k, MapSet(r[k], p, c))

\* rooms[ws.ip].set(ws.id, ws)
openRooms(r, c, k, p) == PutRoom(r, k, MapSet(r[k], p, c))

\* The open handler announcing the peer before it sends the roster and
\* confirming the display name before the registry write.
openEffectsReordered(r, t, c, k, p) ==
    << Publish(publishTo(t, c, k), Frame("peer-joined", getInfoOf(p))),
       Send(c, Frame("peers", otherPeers(r, k))),
       Send(c, Frame("display-name",
                     [displayName |-> nameOf(p).displayName,
                      deviceName |-> nameOf(p).deviceName])),
       Write("set") >>

\* The sends and the registry write of the open handler, in program order.
openEffects(r, t, c, k, p) ==
    << Send(c, Frame("peers", otherPeers(r, k))),
       Write("set"),
       Publish(publishTo(t, c, k), Frame("peer-joined", getInfoOf(p))),
       Send(c, Frame("display-name",
                     [displayName |-> nameOf(p).displayName,
                      deviceName |-> nameOf(p).deviceName])) >>

\* ------------------------------------------------------------ message
\* room?.get(msg.to): the connection registered under `to` in the sender's
\* room, or 0 for undefined.
NoConn == 0

\* A lookup that searches every room for `to`.
recipientAnyRoom(r, c, to) ==
    IF to.t = "string" /\ \E k \in DOMAIN r : MapHas(r[k], to.v)
    THEN MapGet(r[CHOOSE k \in DOMAIN r : MapHas(r[k], to.v)], to.v)
    ELSE NoConn

recipient(r, c, to) ==
    IF HasRoom(r, ip[c]) /\ to.t = "string" /\ MapHas(r[ip[c]], to.v)
    THEN MapGet(r[ip[c]], to.v)
    ELSE NoConn

\* msg.sender = ws.id; delete msg.to; JSON.stringify(msg)
relayed(props, c) ==
    JSONstringify(MapDelete(MapSet(props, "sender", Str(id[c])), "to"))

\* A handler that relays a message without a target to the sender's whole room.
messageOutcomeBroadcast(r, c, text) ==
    LET msg == JSONparse(text) IN
    IF msg.threw THEN [threw |-> TRUE, effects |-> <<>>]
    ELSE IF msg.kind = "null" THEN [threw |-> TRUE, effects |-> <<>>]
    ELSE IF Truthy(GetProp(msg.props, "to"))
         THEN IF recipient(r, c, GetProp(msg.props, "to")) # NoConn
              THEN [threw |-> FALSE,
                    effects |-> << Send(recipient(r, c, GetProp(msg.props, "to")),
                                        Frame("relay", relayed(msg.props, c))) >>]
              ELSE [threw |-> FALSE, effects |-> <<>>]
         ELSE [threw |-> FALSE,
               effects |-> << Publish(publishTo(topics, c, ip[c]),
                                      Frame("relay", relayed(msg.props, c))) >>]

\* A handler that answers an unknown target with an error frame to the sender.
messageOutcomeNack(r, c, text) ==
    LET msg == JSONparse(text) IN
    IF msg.threw THEN [threw |-> TRUE, effects |-> <<>>]
    ELSE IF msg.kind = "null" THEN [threw |-> TRUE, effects |-> <<>>]
    ELSE IF Truthy(GetProp(msg.props, "to"))
         THEN IF recipient(r, c, GetProp(msg.props, "to")) # NoConn
              THEN [threw |-> FALSE,
                    effects |-> << Send(recipient(r, c, GetProp(msg.props, "to")),
                                        Frame("relay", relayed(msg.props, c))) >>]
              ELSE [threw |-> FALSE,
                    effects |-> << Send(c, Frame("relay", ObjectText(<<>>))) >>]
         ELSE [threw |-> FALSE, effects |-> <<>>]

\* The effects of the message handler, and whether an error escaped it.
messageOutcome(r, c, text) ==
    LET msg == JSONparse(text) IN
    IF msg.threw THEN [threw |-> TRUE, effects |-> <<>>]
    ELSE IF msg.kind = "null" THEN [threw |-> TRUE, effects |-> <<>>]
    ELSE IF Truthy(GetProp(msg.props, "to"))
              /\ recipient(r, c, GetProp(msg.props, "to")) # NoConn
         THEN [threw |-> FALSE,
               effects |-> << Send(recipient(r, c, GetProp(msg.props, "to")),
                                   Frame("relay", relayed(msg.props, c))) >>]
         ELSE [threw |-> FALSE, effects |-> <<>>]

\* ------------------------------------------------------------ close
\* A close that deletes under the address instead of the peer id.
closeRoomsWrongKey(r, c) ==
    IF ~HasRoom(r, ip[c]) THEN r
    ELSE IF Len(MapDelete(r[ip[c]], ip[c])) = 0 THEN DeleteRoom(r, ip[c])
         ELSE PutRoom(r, ip[c], MapDelete(r[ip[c]], ip[c]))

\* A close that leaves the emptied room in the registry.
closeRoomsKeep(r, c) ==
    IF ~HasRoom(r, ip[c]) THEN r
    ELSE PutRoom(r, ip[c], MapDelete(r[ip[c]], id[c]))

\* room.delete(ws.id), then delete rooms[ws.ip] when the room is empty.
closeRooms(r, c) ==
    IF ~HasRoom(r, ip[c]) THEN r
    ELSE IF Len(MapDelete(r[ip[c]], id[c])) = 0 THEN DeleteRoom(r, ip[c])
         ELSE PutRoom(r, ip[c], MapDelete(r[ip[c]], id[c]))

\* A close that publishes peer-left whether or not the room is empty.
closeEffectsAlways(r, t, c) ==
    IF ~HasRoom(r, ip[c]) THEN <<>>
    ELSE << Write("delete"),
            Publish(publishTo(t, c, ip[c]), Frame("peer-left", id[c])) >>

\* The effects of the close handler: peer-left is published when the room
\* still has members after the delete.
closeEffects(r, t, c) ==
    IF ~HasRoom(r, ip[c]) THEN <<>>
    ELSE IF Len(MapDelete(r[ip[c]], id[c])) = 0 THEN << Write("delete") >>
         ELSE << Write("delete"),
                 Publish(publishTo(t, c, ip[c]), Frame("peer-left", id[c])) >>

\* ------------------------------------------------------------ the machine
NoText == [kind |-> "none", members |-> <<>>]

Event(op, c, text, pre, effects, threw) ==
    [op |-> op, ws |-> c, input |-> text, pre |-> pre, effects |-> effects,
     threw |-> threw]

deliver(box, effects) ==
    [c \in DOMAIN box |->
        box[c] \o SelectSeq(Delivered(effects, c), LAMBDA f : f.type \in MembershipTypes)]

Init ==
    /\ state = [c \in Conns |-> "CONNECTING"]
    /\ ip = [c \in Conns |-> NoValue]
    /\ id = [c \in Conns |-> NoValue]
    /\ rooms = << >>
    /\ topics = [k \in RoomKeys |-> {}]
    /\ inbox = [c \in Conns |-> <<>>]
    /\ last = Event("none", NoConn, NoText, << >>, <<>>, FALSE)
    /\ handshakes = <<>>

\* upgrade resolved peer id p and address k for connection c; open runs.
\* The transport hands out connection handles in order.
open(c, k, p) ==
    /\ state[c] = "CONNECTING"
    /\ \A b \in DOMAIN state : b < c => state[b] # "CONNECTING"
    /\ state' = [state EXCEPT ![c] = "JOINED"]
    /\ ip' = [ip EXCEPT ![c] = k]
    /\ id' = [id EXCEPT ![c] = p]
    /\ topics' = subscribe(topics, c, k)
    /\ rooms' = openRooms(openRooms0(rooms, k), c, k, p)
    /\ LET effects == openEffects(openRooms0(rooms, k), topics', c, k, p) IN
        /\ inbox' = deliver(inbox, effects)
        /\ last' = Event("open", c, NoText, rooms, effects, FALSE)
    /\ UNCHANGED handshakes

message(c, text) ==
    /\ state[c] = "JOINED"
    /\ LET out == messageOutcome(rooms, c, text) IN
        /\ inbox' = deliver(inbox, out.effects)
        /\ last' = Event("message", c, text, rooms, out.effects, out.threw)
    /\ UNCHANGED <<state, ip, id, rooms, topics, handshakes>>

close(c) ==
    /\ state[c] = "JOINED"
    /\ state' = [state EXCEPT ![c] = "LEFT"]
    /\ topics' = unsubscribeAll(topics, c)
    /\ rooms' = closeRooms(rooms, c)
    /\ LET effects == closeEffects(rooms, topics', c) IN
        /\ inbox' = deliver(inbox, effects)
        /\ last' = Event("close", c, NoText, rooms, effects, FALSE)
    /\ UNCHANGED <<ip, id, handshakes>>

Next ==
    \/ \E c \in Conns, k \in RoomKeys, p \in PeerIds : open(c, k, p)
    \/ \E c \in Conns, text \in Inbound : message(c, text)
    \/ \E c \in Conns : close(c)

Spec == Init /\ [][Next]_vars

\* ============================================================ properties
\* The connection whose handler ran last, and what that handler did.
Actor == last.ws
Opened == last.op = "open"
Closed == last.op = "close"
Messaged == last.op = "message"

\* The room of key k in a registry, as a Map (empty when the key is absent).
RoomOf(r, k) == IF HasRoom(r, k) THEN r[k] ELSE <<>>

\* Connection c is the value of some entry of room k.
IsMember(r, k, c) == \E i \in 1 .. Len(RoomOf(r, k)) : RoomOf(r, k)[i].value = c

\* The frames of one type among a sequence of frames.
OfType(frames, type) == SelectSeq(frames, LAMBDA f : f.type = type)

\* The frames of one type the last handler put on connection c.
Got(c, type) == OfType(Delivered(last.effects, c), type)

\* The positions of the last handler's effects that carry a frame of a type.
Positions(type) == {i \in 1 .. Len(last.effects) : last.effects[i].msg.type = type}

\* The `to` member of the last inbound text, when it is an object that has one.
HasTo == last.input.kind = "object" /\ \E i \in 1 .. Len(last.input.members) :
             last.input.members[i].k = "to"
ToOf == last.input.members[CHOOSE i \in 1 .. Len(last.input.members) :
             last.input.members[i].k = "to"].v

\* The last inbound text names, in `to`, a peer id registered in the
\* sender's room when the handler started.
ToIsMember == HasTo /\ ToOf.t = "string" /\ MapHas(RoomOf(last.pre, ip[Actor]), ToOf.v)

\* ------------------------------------------------------------ C1
\* C1 (room isolation): no handler writes a frame to a connection of another
\* room than the connection it runs for; every entry of a peers roster is
\* the id of another session of the joiner's own room; the registry files
\* each session under its own address.  In particular a directed message is
\* never delivered across rooms, whatever its `to` names.
Isolation ==
    /\ \A k \in DOMAIN rooms : \A i \in 1 .. Len(rooms[k]) : ip[rooms[k][i].value] = k
    /\ Actor # NoConn =>
        /\ \A i \in 1 .. Len(last.effects) :
               \A c \in last.effects[i].rcpts : ip[c] = ip[Actor]
        /\ \A f \in {Got(Actor, "peers")[i] : i \in 1 .. Len(Got(Actor, "peers"))} :
               \A j \in 1 .. Len(f.body) :
                   \E m \in Conns \ {Actor} :
                       /\ state[m] # "CONNECTING"
                       /\ ip[m] = ip[Actor]
                       /\ id[m] = f.body[j].id

\* A directed message whose `to` is registered in another room only, and
\* which nobody received.
IsolationWitness ==
    /\ Messaged /\ HasTo /\ ToOf.t = "string"
    /\ ~ToIsMember
    /\ \E k \in DOMAIN rooms : k # ip[Actor] /\ MapHas(rooms[k], ToOf.v)
    /\ HasRoom(rooms, ip[Actor])
    /\ last.effects = <<>>

\* ------------------------------------------------------------ C2
\* C2 (roster completeness): the peers frame of a join lists exactly the
\* members the room had before the join, and no entry carries the joiner's
\* own peer id.
RosterCompleteness ==
    Opened =>
        /\ Len(Got(Actor, "peers")) = 1
        /\ LET body == Got(Actor, "peers")[1].body
               before == RoomOf(last.pre, ip[Actor])
           IN /\ body = [i \in 1 .. Len(before) |-> getInfoOf(before[i].key)]
              /\ \A i \in 1 .. Len(body) : body[i].id # id[Actor]

\* ------------------------------------------------------------ C3
\* C3 (exactly-once join notification): on a join, every member of the room
\* other than the joiner (before the join as well as after it) is written
\* exactly one peer-joined frame, carrying the joiner's info, and the joiner
\* is written none.
ExactlyOnceJoin ==
    Opened =>
        /\ Got(Actor, "peer-joined") = <<>>
        /\ \A c \in Conns \ {Actor} :
               (IsMember(rooms, ip[Actor], c) \/ IsMember(last.pre, ip[Actor], c))
                   => Got(c, "peer-joined") = << Frame("peer-joined", getInfoOf(id[Actor])) >>

\* A join into a room that already had a member under another peer id.
ExactlyOnceJoinWitness ==
    /\ Opened
    /\ \E c \in Conns \ {Actor} :
           /\ IsMember(rooms, ip[Actor], c)
           /\ id[c] # id[Actor]
           /\ Len(Got(c, "peer-joined")) = 1

\* ------------------------------------------------------------ C4
\* The members of a text other than `to` and `sender`.
PayloadOf(text) == SelectSeq(text.members, LAMBDA m : m.k \notin {"to", "sender"})

\* C4 (directed relay): a message whose `to` is registered in the sender's
\* room, to another connection B, is written once, to B only, with sender
\* set to the sender's id, without `to`, with every other member as it was
\* sent; nothing else is written and the registry is unchanged.
DirectedRelay ==
    (Messaged /\ ToIsMember /\ MapGet(RoomOf(last.pre, ip[Actor]), ToOf.v) # Actor) =>
        /\ Len(last.effects) = 1
        /\ last.effects[1].rcpts = {MapGet(RoomOf(last.pre, ip[Actor]), ToOf.v)}
        /\ LET out == last.effects[1].msg.body IN
              /\ \A i \in 1 .. Len(out.members) : out.members[i].k # "to"
              /\ Len(SelectSeq(out.members, LAMBDA m : m.k = "sender")) = 1
              /\ \A i \in 1 .. Len(out.members) :
                     out.members[i].k = "sender" => out.members[i].v = Str(id[Actor])
              /\ PayloadOf(out) = PayloadOf(last.input)
        /\ rooms = last.pre
        /\ ~last.threw

\* ------------------------------------------------------------ C5
\* How often peer id p is announced (peer-joined, or an entry of a roster)
\* in a sequence of frames, and how often it is reported gone.
RECURSIVE Announced(_, _)
Announced(frames, p) ==
    IF frames = <<>> THEN 0
    ELSE (CASE Head(frames).type = "peer-joined" ->
                   IF Head(frames).body.id = p THEN 1 ELSE 0
            [] Head(frames).type = "peers" ->
                   Len(SelectSeq(Head(frames).body, LAMBDA e : e.id = p))
            [] OTHER -> 0)
         + Announced(Tail(frames), p)

Gone(frames, p) == Len(SelectSeq(frames, LAMBDA f : f.type = "peer-left" /\ f.body = p))

\* C5 (leave notification): when a member closes and its room keeps a
\* member, every remaining member is written exactly one peer-left with the
\* closing peer id; and no connection is ever written more peer-left frames
\* for a peer id than it was written announcements of it.
LeaveNotification ==
    /\ (Closed /\ IsMember(last.pre, ip[Actor], Actor) /\ HasRoom(rooms, ip[Actor])) =>
           \A c \in Conns :
               IsMember(rooms, ip[Actor], c)
                   => Got(c, "peer-left") = << Frame("peer-left", id[Actor]) >>
    /\ \A c \in Conns : \A p \in PeerIds :
           Gone(inbox[c], p) <= Announced(inbox[c], p)

\* ------------------------------------------------------------ C6
\* C6 (empty-room cleanup): the registry never holds a room without
\* members; a close that removes the last entry of a room removes the key;
\* a join to a key the registry does not hold is sent an empty roster.
EmptyRoomCleanup ==
    /\ \A k \in DOMAIN rooms : Len(rooms[k]) > 0
    /\ (Closed /\ MapKeys(RoomOf(last.pre, ip[Actor])) \subseteq {id[Actor]})
           => ~HasRoom(rooms, ip[Actor])
    /\ (Opened /\ ~HasRoom(last.pre, ip[Actor]))
           => Got(Actor, "peers") = << Frame("peers", <<>>) >>

\* A join to a room key that an earlier session used and left.
EmptyRoomCleanupWitness ==
    /\ Opened
    /\ ~HasRoom(last.pre, ip[Actor])
    /\ \E c \in Conns : state[c] = "LEFT" /\ ip[c] = ip[Actor]
    /\ Got(Actor, "peers") = << Frame("peers", <<>>) >>

\* ------------------------------------------------------------ C7
\* C7 (no leave broadcast on last departure): a close after which the room
\* has no member publishes no peer-left.
NoLeaveBroadcastOnLast ==
    (Closed /\ ~HasRoom(rooms, ip[Actor])) => Positions("peer-left") = {}

\* The last entry of a room is removed while another connection is still
\* subscribed to the room's topic.
NoLeaveBroadcastOnLastWitness ==
    /\ Closed
    /\ HasRoom(last.pre, ip[Actor]) /\ ~HasRoom(rooms, ip[Actor])
    /\ topics[ip[Actor]] # {}

\* ------------------------------------------------------------ C8
\* C8 (join ordering): in a join the roster is sent before the peer-joined
\* is published, the display name is sent after the registry write, and the
\* joiner is written the roster first and the display name second, these
\* two being all it has been written when the handler ends.
JoinOrdering ==
    Opened =>
        /\ \A i \in Positions("peers") : \A j \in Positions("peer-joined") : i < j
        /\ Positions("peers") # {} /\ Positions("display-name") # {}
        /\ \A i \in Positions("display-name") :
               \E j \in 1 .. Len(last.effects) : last.effects[j].e = "set" /\ j < i
        /\ IsMember(rooms, ip[Actor], Actor)
        /\ inbox[Actor] = << Frame("peers", Got(Actor, "peers")[1].body),
                             Frame("display-name",
                                   [displayName |-> displayName(id[Actor]),
                                    deviceName |-> "Unknown Device"]) >>

\* A join whose peer-joined reached another connection.
JoinOrderingWitness ==
    /\ Opened
    /\ \E i \in Positions("peer-joined") : last.effects[i].rcpts # {}
    /\ Len(inbox[Actor]) = 2

\* ------------------------------------------------------------ C9
\* C9 (unknown target): a message whose `to` is a non-empty string that is
\* not registered in the sender's room (the room may be gone) writes
\* nothing to anyone, changes nothing in the registry, raises nothing, and
\* the sender stays open.
UnknownTarget ==
    (Messaged /\ HasTo /\ Truthy(ToOf) /\ ~ToIsMember) =>
        /\ last.effects = <<>>
        /\ rooms = last.pre
        /\ ~last.threw
        /\ state[Actor] = "JOINED"

\* A directed message from a connection whose room is no longer in the registry.
UnknownTargetWitness ==
    /\ Messaged /\ HasTo /\ Truthy(ToOf)
    /\ ~HasRoom(rooms, ip[Actor])
    /\ ToOf.v \in PeerIds
    /\ last.effects = <<>>

\* ------------------------------------------------------------ C10
\* C10 (malformed inbound message): a text that is not JSON, or that is the
\* literal null, ends the handler without an error, writes nothing, leaves
\* the registry and the connection as they were.
MalformedIgnored ==
    (Messaged /\ last.input.kind \in {"garbage", "null"}) =>
        /\ ~last.threw
        /\ last.effects = <<>>
        /\ rooms = last.pre
        /\ state[Actor] = "JOINED"


\* ------------------------------------------------------------ C11
\* The sessions that opened with address k and peer id p, and the one among
\* them that joined last (handles are handed out in join order).
Holders(k, p) == {c \in Conns : state[c] # "CONNECTING" /\ ip[c] = k /\ id[c] = p}
LatestHolder(k, p) == CHOOSE c \in Holders(k, p) : \A d \in Holders(k, p) : d <= c

\* The entries of a Map under key k.
EntriesFor(m, k) == SelectSeq(m, LAMBDA e : e.key = k)

\* C11 (duplicate join is last-writer-wins): when a session joins under a
\* peer id that an open session of the room holds, the room then has exactly
\* one entry for the peer id, bound to the joiner, and a lookup of the peer
\* id from any member yields the joiner; and whenever a directed message is
\* relayed, it goes to the session that joined last under the addressed
\* peer id, never to an older holder.
DuplicateJoinLastWriter ==
    /\ (Opened /\ MapHas(RoomOf(last.pre, ip[Actor]), id[Actor])) =>
           /\ EntriesFor(rooms[ip[Actor]], id[Actor])
                  = << [key |-> id[Actor], value |-> Actor] >>
           /\ \A m \in Conns :
                  IsMember(rooms, ip[Actor], m)
                      => recipient(rooms, m, Str(id[Actor])) = Actor
    /\ (Messaged /\ ToIsMember) =>
           /\ Len(last.effects) = 1
           /\ last.effects[1].rcpts = {LatestHolder(ip[Actor], ToOf.v)}
           /\ state[LatestHolder(ip[Actor], ToOf.v)] = "JOINED"

\* A member's directed message reaches the second holder of a peer id while
\* the first holder is still open.
DuplicateJoinLastWriterWitness ==
    /\ Messaged /\ ToIsMember
    /\ IsMember(rooms, ip[Actor], Actor)
    /\ id[Actor] # ToOf.v
    /\ \E c1, c2 \in Holders(ip[Actor], ToOf.v) :
           /\ c1 < c2
           /\ state[c1] = "JOINED" /\ state[c2] = "JOINED"
           /\ last.effects[1].rcpts = {c2}


\* ------------------------------------------------------------ C12
\* The close handler invoked once more for a session whose close already
\* ran (the transport does not do this; the handler is the same code).  The
\* socket holds no subscription any more.
reclose(c) ==
    /\ state[c] = "LEFT"
    /\ state' = [state EXCEPT ![c] = "LEFT-TWICE"]
    /\ rooms' = closeRooms(rooms, c)
    /\ LET effects == closeEffects(rooms, topics, c) IN
        /\ inbox' = deliver(inbox, effects)
        /\ last' = Event("reclose", c, NoText, rooms, effects, FALSE)
    /\ UNCHANGED <<ip, id, topics, handshakes>>

NextReclose ==
    \/ Next
    \/ \E c \in Conns : reclose(c)

SpecReclose == Init /\ [][NextReclose]_vars

\* C12 (leave is idempotent): a second run of the close handler for a
\* session that has left changes nothing in the registry and writes no
\* frame to any connection.
LeaveIdempotent ==
    last.op = "reclose" =>
        /\ rooms = last.pre
        /\ \A i \in 1 .. Len(last.effects) : last.effects[i].rcpts = {}


\* ------------------------------------------------------------ upgrade
\* Text is a sequence of one-character strings.
HexDigits == <<"0", "1", "2", "3", "4", "5", "6", "7", "8", "9",
               "a", "b", "c", "d", "e", "f">>

\* The character class [a-f0-9-] of the cookie pattern.
TokenChars == {HexDigits[i] : i \in 1 .. 16} \cup {"-"}

PeeridEq == <<"p", "e", "e", "r", "i", "d", "=">>

\* The template of generateUuid.
UuidTemplate ==
    <<"x", "x", "x", "x", "x", "x", "x", "x", "-", "x", "x", "x", "x", "-",
      "4", "x", "x", "x", "-", "y", "x", "x", "x", "-",
      "x", "x", "x", "x", "x", "x", "x", "x", "x", "x", "x", "x">>

\* generateUuid, given the value (Math.random() * 16) | 0 takes at each
\* position: x becomes r in hex, y becomes (r & 0x3) | 0x8 in hex.
generateUuid(rs) ==
    [i \in 1 .. Len(UuidTemplate) |->
        CASE UuidTemplate[i] = "x" -> HexDigits[rs[i] + 1]
          [] UuidTemplate[i] = "y" -> HexDigits[((rs[i] % 4) + 8) + 1]
          [] OTHER -> UuidTemplate[i]]

\* The random draws the model takes: the same digit at every position.
Randoms == {[i \in 1 .. Len(UuidTemplate) |-> d] : d \in {0, 7, 15}}

\* The pattern /peerid=([a-f0-9-]+)/ matches at position i of text s.
MatchesAt(s, i) ==
    /\ i + Len(PeeridEq) <= Len(s)
    /\ SubSeq(s, i, i + Len(PeeridEq) - 1) = PeeridEq
    /\ s[i + Len(PeeridEq)] \in TokenChars

\* The longest run of token characters of s that starts at position i.
RECURSIVE TokenRun(_, _)
TokenRun(s, i) ==
    IF i <= Len(s) /\ s[i] \in TokenChars THEN <<s[i]>> \o TokenRun(s, i + 1) ELSE <<>>

\* cookie.match(/peerid=([a-f0-9-]+)/): match[1] of the leftmost match, or
\* the empty text when there is no match.
cookieMatch(s) ==
    LET hits == {i \in 1 .. Len(s) : MatchesAt(s, i)}
    IN IF hits = {} THEN <<>>
       ELSE TokenRun(s, (CHOOSE i \in hits : \A j \in hits : i <= j) + Len(PeeridEq))

\* `peerid=${peerId}; SameSite=Strict; Secure`
SetCookie(peerId) ==
    PeeridEq \o peerId
        \o <<";", " ", "S", "a", "m", "e", "S", "i", "t", "e", "=",
             "S", "t", "r", "i", "c", "t", ";", " ", "S", "e", "c", "u", "r", "e">>

\* The cookie/peer id logic of upgrade: the peer id passed to open and the
\* Set-Cookie header written (empty when none is).
resolve(cookie, rs) ==
    IF cookieMatch(cookie) # <<>>
    THEN [peerId |-> cookieMatch(cookie), setCookie |-> <<>>]
    ELSE [peerId |-> generateUuid(rs), setCookie |-> SetCookie(generateUuid(rs))]

\* A cookie header is written from its cookies, joined by "; ".
Cookie(name, value) == [name |-> name, value |-> value]

RECURSIVE HeaderText(_)
HeaderText(cookies) ==
    IF cookies = <<>> THEN <<>>
    ELSE Head(cookies).name \o <<"=">> \o Head(cookies).value
             \o (IF Tail(cookies) = <<>> THEN <<>> ELSE <<";", " ">>)
             \o HeaderText(Tail(cookies))

\* upgrade requests handled in a run
MaxHandshakes == 2

PeeridName == <<"p", "e", "e", "r", "i", "d">>
LastPeeridName == <<"l", "a", "s", "t">> \o PeeridName
ThemeName == <<"t", "h", "e", "m", "e">>

\* The peer ids the server has issued so far.
Issued == {handshakes[i].peerId : i \in {j \in 1 .. Len(handshakes) :
                                            handshakes[j].setCookie # <<>>}}

\* The cookie headers a client presents: none, an unrelated cookie, a
\* peerid cookie with no valid character, one with valid characters followed
\* by invalid ones, a cookie whose name ends in peerid, and an issued token
\* alone or after another cookie.
Headers ==
    { <<>>,
      <<Cookie(ThemeName, <<"X", "Y">>)>>,
      <<Cookie(PeeridName, <<"X", "Y">>)>>,
      <<Cookie(PeeridName, <<"a", "b", "X", "Y">>)>>,
      <<Cookie(LastPeeridName, <<"a", "b">>)>> }
        \cup {<<Cookie(PeeridName, t)>> : t \in Issued}
        \cup {<<Cookie(ThemeName, <<"X", "Y">>), Cookie(PeeridName, t)>> : t \in Issued}
        \cup {<<Cookie(LastPeeridName, <<"a", "b">>), Cookie(PeeridName, t)>> : t \in Issued}

upgrade(cookies, rs) ==
    /\ Len(handshakes) < MaxHandshakes
    /\ handshakes' = Append(handshakes,
                            [cookies |-> cookies,
                             peerId |-> resolve(HeaderText(cookies), rs).peerId,
                             setCookie |-> resolve(HeaderText(cookies), rs).setCookie])
    /\ UNCHANGED <<state, ip, id, rooms, topics, inbox, last>>

NextUpgrade == \E cookies \in Headers, rs \in Randoms : upgrade(cookies, rs)

SpecUpgrade == Init /\ [][NextUpgrade]_vars

\* The tokens a handshake presents in the required format: the values of
\* its cookies named peerid that consist of token characters only.
ValidTokens(cookies) ==
    {cookies[i].value : i \in {j \in 1 .. Len(cookies) :
        /\ cookies[j].name = PeeridName
        /\ cookies[j].value # <<>>
        /\ \A n \in 1 .. Len(cookies[j].value) : cookies[j].value[n] \in TokenChars}}

\* The peer ids issued before the i-th handshake.
IssuedBefore(i) == {handshakes[j].peerId : j \in {n \in 1 .. i - 1 :
                                                    handshakes[n].setCookie # <<>>}}

\* ------------------------------------------------------------ C13
\* C13 (identity continuity): a handshake that presents a previously issued
\* token in the valid format resolves to exactly that token and issues no
\* new one; two handshakes that present the same such token get the same
\* peer id.
IdentityContinuity ==
    \A i \in 1 .. Len(handshakes) :
        \A t \in ValidTokens(handshakes[i].cookies) \cap IssuedBefore(i) :
            /\ handshakes[i].peerId = t
            /\ handshakes[i].setCookie = <<>>

\* ------------------------------------------------------------ C14
\* A text occurs inside another.
OccursIn(a, b) == \E i \in 1 .. Len(b) - Len(a) + 1 : SubSeq(b, i, i + Len(a) - 1) = a

\* C14 (malformed token is treated as absent): a handshake that presents no
\* token in the valid format gets a newly generated peer id, which is issued
\* back in Set-Cookie and is no part of anything the client presented.
MalformedTokenAbsent ==
    \A i \in 1 .. Len(handshakes) :
        ValidTokens(handshakes[i].cookies) = {} =>
            /\ handshakes[i].peerId \in {generateUuid(rs) : rs \in Randoms}
            /\ handshakes[i].setCookie = SetCookie(handshakes[i].peerId)
            /\ ~OccursIn(handshakes[i].peerId, HeaderText(handshakes[i].cookies))


\* ------------------------------------------------------------ C15
\* C15 (messages without `to` are ignored): an inbound text without a `to`
\* member, or with an empty one, writes no frame to any connection; and the
\* message handler leaves the registry as it was for every input.
NoTargetIgnored ==
    Messaged =>
        /\ rooms = last.pre
        /\ (~HasTo \/ ~Truthy(ParseLiteral(ToOf))) => last.effects = <<>>

\* A member of a room that has another member sends a text without `to`,
\* and one with an empty `to`.
NoTargetIgnoredWitness ==
    /\ Messaged
    /\ last.input \in {ObjectText(Forged), ObjectText(To(Str("")) \o Forged)}
    /\ Len(RoomOf(rooms, ip[Actor])) = 2
    /\ IsMember(rooms, ip[Actor], Actor)
    /\ last.effects = <<>>


\* ------------------------------------------------------------ C16
\* The registry at the moment the last handler published: after the set of
\* open, after the delete of close.
AtBroadcast == rooms

\* C16 (broadcast recipients are members only): a peer-joined or peer-left
\* is written only to sessions that are members of the room when it is
\* published, and never to a session whose own peer id it names.
BroadcastMembersOnly ==
    \A i \in Positions("peer-joined") \cup Positions("peer-left") :
        \A c \in last.effects[i].rcpts :
            /\ IsMember(AtBroadcast, ip[Actor], c)
            /\ id[c] # id[Actor]


\* ------------------------------------------------------------ C17
\* C17 (LEFT is terminal): in every step a connection's state changes only
\* from CONNECTING to JOINED or from JOINED to LEFT; after the step every
\* session stored in the registry is JOINED, and every frame the step's
\* handler wrote went to a JOINED connection or to one that the step itself
\* closed -- so a session in LEFT is never a member and is never written to.
LeftIsTerminal ==
    [][ /\ \A c \in Conns :
               state'[c] # state[c] =>
                   <<state[c], state'[c]>> \in {<<"CONNECTING", "JOINED">>, <<"JOINED", "LEFT">>}
        /\ \A k \in DOMAIN rooms' : \A i \in 1 .. Len(rooms'[k]) :
               state'[rooms'[k][i].value] = "JOINED"
        /\ \A i \in 1 .. Len(last'.effects) : \A c \in last'.effects[i].rcpts :
               state[c] # "LEFT" /\ state'[c] = "JOINED"
      ]_vars

\* A join and its broadcast in a room that a session has left.
LeftIsTerminalWitness ==
    /\ Opened
    /\ \E c \in Conns : state[c] = "LEFT" /\ ip[c] = ip[Actor]
    /\ \E i \in Positions("peer-joined") : last.effects[i].rcpts # {}


\* ------------------------------------------------------------ C18
\* One room, one connection more, no messages: a roster shows the order of
\* the registry only to the session that joins after a replacement.
RosterConns == 1 .. MaxConn + 1

InitRoster ==
    /\ state = [c \in RosterConns |-> "CONNECTING"]
    /\ ip = [c \in RosterConns |-> NoValue]
    /\ id = [c \in RosterConns |-> NoValue]
    /\ rooms = << >>
    /\ topics = [k \in RoomKeys |-> {}]
    /\ inbox = [c \in RosterConns |-> <<>>]
    /\ last = Event("none", NoConn, NoText, << >>, <<>>, FALSE)
    /\ handshakes = <<>>

NextRoster ==
    \/ \E c \in RosterConns, p \in PeerIds : open(c, "10.0.0.5", p)
    \/ \E c \in RosterConns : close(c)

SpecRoster == InitRoster /\ [][NextRoster]_vars

\* The n-th smallest element of a set of numbers.
NthSmallest(S, n) == CHOOSE x \in S : Cardinality({y \in S : y < x}) = n - 1

\* The sessions of a Map in the order they joined (handles are handed out in
\* join order).
InJoinOrder(m) ==
    [i \in 1 .. Len(m) |-> NthSmallest({m[j].value : j \in 1 .. Len(m)}, i)]

\* C18 (roster order is join order): the peers frame of a join lists the
\* members the room had, in the order in which their sessions joined.
RosterJoinOrder ==
    Opened =>
        Got(Actor, "peers")[1].body
            = [i \in 1 .. Len(RoomOf(last.pre, ip[Actor])) |->
                  getInfo(InJoinOrder(RoomOf(last.pre, ip[Actor]))[i])]


\* ------------------------------------------------------------ C19
\* C19 (membership consistency under duplicate identities): an open session
\* that joined last under its address and peer id is a member of its room,
\* registered under its peer id; and the close of another connection
\* publishes no peer-left for the peer id of such a session.
MembershipConsistency ==
    /\ \A c \in Conns :
           (state[c] = "JOINED" /\ LatestHolder(ip[c], id[c]) = c) =>
               /\ HasRoom(rooms, ip[c])
               /\ MapHas(rooms[ip[c]], id[c])
               /\ MapGet(rooms[ip[c]], id[c]) = c
    /\ Closed =>
           \A c \in Conns \ {Actor} :
               (state[c] = "JOINED" /\ ip[c] = ip[Actor] /\ id[c] = id[Actor]
                    /\ LatestHolder(ip[c], id[c]) = c)
                   => Positions("peer-left") = {}


\* ------------------------------------------------------------ C20
\* Joins and closes in any interleaving; the message handler is left out
\* because it never writes the registry.
NextLifecycle ==
    \/ \E c \in Conns, k \in RoomKeys, p \in PeerIds : open(c, k, p)
    \/ \E c \in Conns : close(c)

\* The transport reports the close of every open connection: a connection
\* that stays open has its close handler run eventually.  New connections
\* stop arriving because there are MaxConn of them.
FairSpec == Init /\ [][NextLifecycle]_vars /\ \A c \in Conns : WF_vars(close(c))

\* C20 (registry drains): once connections stop arriving and every open
\* connection is closed, the registry becomes empty and stays empty.
RegistryDrains == <>[](rooms = << >>)

\* Every connection has come and gone, two of them under one address and
\* peer id, and the registry is empty.
RegistryDrainsWitness ==
    /\ \A c \in Conns : state[c] = "LEFT"
    /\ \E c1, c2 \in Conns : c1 # c2 /\ ip[c1] = ip[c2] /\ id[c1] = id[c2]
    /\ rooms = << >>

====
